---- MODULE Spec2Model ----
(***************************************************************************)
(* A model of src/components/data_transformation.py: the construction of   *)
(* the two-branch column preprocessor (get_data_transformer_object) and    *)
(* the driver that loads the train and test tables, fits the preprocessor, *)
(* transforms both tables, appends the target and persists the fitted      *)
(* object (initiate_data_transformation).                                  *)
(*                                                                         *)
(* Numbers.  Table cells are integers; a missing cell (NaN) is -1.         *)
(* A cell of an output matrix is a pair <<p, q>> standing for the real     *)
(* number p / sqrt(q): standardisation divides by a standard deviation,    *)
(* which is a square root, and the pair keeps it exact.  Numeric values    *)
(* are carried doubled inside the numeric branch, because the median of an *)
(* even number of integers may be a half; the standardised value is the    *)
(* same for the doubled column.                                            *)
(***************************************************************************)
EXTENDS Integers, Sequences, FiniteSets, TLC

\* np.nan, the missing value of both imputers
NaN == -1

\* The largest number of rows of a table
MaxRows == 2

---------------------------------------------------------------------------
(* Schema *)

numerical_columns == <<"writing_score", "reading_score">>

categorical_columns ==
    <<"gender", "race_ethnicity", "parental_level_of_education", "lunch",
      "test_preparation_course">>

target_column_name == "math_score"

preprocessor_obj_file_path == "artifacts/preprocessor.pkl"

Range(s) == {s[i] : i \in DOMAIN s}

SchemaColumns == Range(numerical_columns) \cup Range(categorical_columns)

\* A column that is neither a feature of the schema nor the target
ExtraColumn == "student_id"

---------------------------------------------------------------------------
(* Input tables: what pd.read_csv finds at the two paths *)

RowA ==
    [writing_score |-> 60, reading_score |-> 70, gender |-> 1,
     race_ethnicity |-> 1, parental_level_of_education |-> 1, lunch |-> 1,
     test_preparation_course |-> 1, math_score |-> 50, student_id |-> 7]

RowB ==
    [writing_score |-> NaN, reading_score |-> 80, gender |-> 2,
     race_ethnicity |-> 1, parental_level_of_education |-> NaN, lunch |-> 1,
     test_preparation_course |-> 1, math_score |-> 65, student_id |-> 8]

RowC ==
    [writing_score |-> 40, reading_score |-> 80, gender |-> 2,
     race_ethnicity |-> 1, parental_level_of_education |-> 2, lunch |-> 1,
     test_preparation_course |-> 1, math_score |-> 70, student_id |-> 9]

RowPool == {RowA, RowB, RowC}

\* The sequences of at most n different rows of the pool
RECURSIVE RowSeqs(_)
RowSeqs(n) ==
    IF n = 0 THEN {<<>>}
    ELSE LET shorter == RowSeqs(n - 1)
             longest == {t \in shorter : Len(t) = n - 1}
         IN  shorter \cup {Append(p[1], p[2]) :
                              p \in {q \in longest \X RowPool : q[2] \notin Range(q[1])}}

MkTable(cols, rs) ==
    [readable |-> TRUE, columns |-> cols,
     rows |-> [i \in 1..Len(rs) |-> [c \in cols |-> rs[i][c]]]]

\* A path that cannot be read, and the value of a table variable not yet set
NoTable == [readable |-> FALSE, columns |-> {}, rows |-> <<>>]

ConformingTables ==
    {MkTable(SchemaColumns \cup {target_column_name}, rs) : rs \in RowSeqs(MaxRows)}

ExtraColumnTables ==
    {MkTable(SchemaColumns \cup {target_column_name, ExtraColumn}, rs) : rs \in RowSeqs(MaxRows)}

MismatchedTables ==
    {MkTable((SchemaColumns \cup {target_column_name}) \ {c}, <<r>>) :
        c \in {target_column_name, "lunch"}, r \in RowPool}

Files == ConformingTables \cup ExtraColumnTables \cup MismatchedTables \cup {NoTable}

---------------------------------------------------------------------------
(* sklearn: SimpleImputer, StandardScaler, OneHotEncoder *)

Values(df, c) == [i \in 1..Len(df.rows) |-> df.rows[i][c]]

Observed(col) == {i \in DOMAIN col : col[i] # NaN}

ObservedValues(col) == {col[i] : i \in Observed(col)}

\* The k-th smallest observed value of a column
Kth(col, k) ==
    CHOOSE v \in ObservedValues(col) :
        /\ Cardinality({i \in Observed(col) : col[i] < v}) < k
        /\ k <= Cardinality({i \in Observed(col) : col[i] <= v})

\* SimpleImputer(strategy = "median").statistics_, doubled; NaN for a column
\* with no observed value
Median2(col) ==
    LET m == Cardinality(Observed(col))
    IN  IF m = 0 THEN NaN
        ELSE IF m % 2 = 1 THEN 2 * Kth(col, (m + 1) \div 2)
        ELSE Kth(col, m \div 2) + Kth(col, m \div 2 + 1)

\* SimpleImputer(strategy = "most_frequent").statistics_: the smallest of the
\* most frequent values; NaN for a column with no observed value
MostFrequent(col) ==
    LET count(v) == Cardinality({i \in Observed(col) : col[i] = v})
        best == {v \in ObservedValues(col) : \A w \in ObservedValues(col) : count(w) <= count(v)}
    IN  IF Observed(col) = {} THEN NaN
        ELSE CHOOSE v \in best : \A w \in best : v <= w

\* The numeric imputer's fill of one cell, doubled
ImputeNum2(x, stat2) == IF x = NaN THEN stat2 ELSE 2 * x

\* The categorical imputer's fill of one cell
ImputeCat(x, stat) == IF x = NaN THEN stat ELSE x

RECURSIVE SeqSum(_)
SeqSum(s) == IF s = <<>> THEN 0 ELSE Head(s) + SeqSum(Tail(s))

RECURSIVE SortedSeq(_)
SortedSeq(S) ==
    IF S = {} THEN <<>>
    ELSE LET m == CHOOSE v \in S : \A w \in S : v <= w
         IN  <<m>> \o SortedSeq(S \ {m})

RECURSIVE Flatten(_)
Flatten(ss) == IF ss = <<>> THEN <<>> ELSE Head(ss) \o Flatten(Tail(ss))

---------------------------------------------------------------------------
(* The preprocessor: get_data_transformer_object and its fit / transform *)

\* A numeric imputer that fills with the constant 0 instead of the median
NumStatisticConstant(col) == IF Observed(col) = {} THEN NaN ELSE 0

\* num_pipeline's imputer: SimpleImputer(strategy = "median")
NumStatistic(col) == Median2(col)

\* cat_pipeline's imputer: SimpleImputer(strategy = "most_frequent")
CatStatistic(col) == MostFrequent(col)

\* An encoder that encodes an unseen category as all zeros
handle_unknown_ignore == "ignore"

\* OneHotEncoder(): handle_unknown keeps its default
handle_unknown == "error"

\* A column transformer that passes the other columns through
remainder_passthrough == "passthrough"

\* ColumnTransformer([...]): remainder keeps its default
remainder == "drop"

\* The unfitted ColumnTransformer that get_data_transformer_object returns
UnfittedPreprocessor ==
    [built |-> TRUE, fitted |-> FALSE,
     num_statistics |-> <<>>, num_mean |-> <<>>, num_scale |-> <<>>,
     cat_statistics |-> <<>>, categories |-> <<>>, cat_scale |-> <<>>,
     passthrough |-> {}, sparse_output |-> FALSE]

\* The value of preprocessor_obj before line 83 has run
NoPreprocessor == [UnfittedPreprocessor EXCEPT !.built = FALSE]

\* The columns a fitted imputer keeps: those with an observed training value
\* (a column without one is skipped by SimpleImputer.transform)
Kept(columns, statistics) == SelectSeq(columns, LAMBDA c : statistics[c] # NaN)

\* Whether fit accepts the table: the schema's columns are all there, there
\* is at least one row, and each branch keeps at least one column
CanFit(df) ==
    /\ SchemaColumns \subseteq df.columns
    /\ Len(df.rows) >= 1
    /\ \E c \in Range(numerical_columns) : NumStatistic(Values(df, c)) # NaN
    /\ \E c \in Range(categorical_columns) : CatStatistic(Values(df, c)) # NaN

\* ColumnTransformer.fit on a table that CanFit accepts
Fit(df) ==
    LET n == Len(df.rows)
        nstat == [c \in Range(numerical_columns) |-> NumStatistic(Values(df, c))]
        cstat == [c \in Range(categorical_columns) |-> CatStatistic(Values(df, c))]
        nkept == Range(Kept(numerical_columns, nstat))
        ckept == Range(Kept(categorical_columns, cstat))
        num2(c) == [i \in 1..n |-> ImputeNum2(df.rows[i][c], nstat[c])]
        sum(c) == SeqSum(num2(c))
        sumsq(c) == SeqSum([i \in 1..n |-> num2(c)[i] * num2(c)[i]])
        spread(c) == n * sumsq(c) - sum(c) * sum(c)
        cat(c) == [i \in 1..n |-> ImputeCat(df.rows[i][c], cstat[c])]
        hits(c, k) == Cardinality({i \in 1..n : cat(c)[i] = k})
        width == SeqSum([i \in 1..Len(categorical_columns) |->
                            IF categorical_columns[i] \in ckept
                            THEN Cardinality(Range(cat(categorical_columns[i])))
                            ELSE 0])
    IN  [built |-> TRUE, fitted |-> TRUE,
         num_statistics |-> nstat,
         \* StandardScaler().mean_ (of the doubled column) as <<sum, n>>
         num_mean |-> [c \in nkept |-> <<sum(c), n>>],
         \* StandardScaler().scale_: q of the cell (n * x - sum) / sqrt(q);
         \* a zero variance scales by 1
         num_scale |-> [c \in nkept |-> IF spread(c) = 0 THEN 4 * n * n ELSE spread(c)],
         cat_statistics |-> cstat,
         \* OneHotEncoder().categories_
         categories |-> [c \in ckept |-> Range(cat(c))],
         \* StandardScaler(with_mean = False): what an indicator of 1 becomes
         cat_scale |-> [c \in ckept |-> [k \in Range(cat(c)) |->
                          IF hits(c, k) = n THEN <<1, 1>>
                          ELSE <<n, hits(c, k) * (n - hits(c, k))>>]],
         passthrough |-> IF remainder = "drop" THEN {} ELSE df.columns \ SchemaColumns,
         \* ColumnTransformer(sparse_threshold = 0.3): the stacked output is
         \* sparse when its density is below the threshold
         sparse_output |-> 10 * (Cardinality(nkept) + Cardinality(ckept))
                              < 3 * (Cardinality(nkept) + width)]

\* Whether a categorical cell, once imputed, is a category seen in fit
Known(obj, c, x) == ImputeCat(x, obj.cat_statistics[c]) \in obj.categories[c]

\* Whether transform accepts the table
CanTransform(obj, df) ==
    /\ obj.fitted
    /\ SchemaColumns \cup obj.passthrough \subseteq df.columns
    /\ Len(df.rows) >= 1
    /\ handle_unknown = "error" =>
          \A i \in 1..Len(df.rows) : \A c \in DOMAIN obj.categories :
              Known(obj, c, df.rows[i][c])

NumCell(obj, c, x) ==
    <<obj.num_mean[c][2] * ImputeNum2(x, obj.num_statistics[c]) - obj.num_mean[c][1],
      obj.num_scale[c]>>

CatCells(obj, c, x) ==
    LET cats == SortedSeq(obj.categories[c])
    IN  [j \in 1..Len(cats) |->
            IF ImputeCat(x, obj.cat_statistics[c]) = cats[j]
            THEN obj.cat_scale[c][cats[j]] ELSE <<0, 1>>]

\* One row of the transformed feature matrix
TransformRow(obj, r) ==
    LET nk == Kept(numerical_columns, obj.num_statistics)
        ck == Kept(categorical_columns, obj.cat_statistics)
        rest == SortedSeq(IF ExtraColumn \in obj.passthrough THEN {r[ExtraColumn]} ELSE {})
    IN  [j \in 1..Len(nk) |-> NumCell(obj, nk[j], r[nk[j]])]
        \o Flatten([j \in 1..Len(ck) |-> CatCells(obj, ck[j], r[ck[j]])])
        \o [j \in 1..Len(rest) |-> <<rest[j], 1>>]

\* ColumnTransformer.transform on a table that CanTransform accepts
Transform(obj, df) == [i \in 1..Len(df.rows) |-> TransformRow(obj, df.rows[i])]

---------------------------------------------------------------------------
(* src.exception.CustomException and src.utils.save_object *)

\* An exception is the chain of its kinds, outermost first: the last element
\* is the original cause.  CustomException(e, sys) wraps e.
CustomException(e) == <<"CustomException">> \o e

NoException == <<>>

\* pickle.dump: the object's attributes in a fixed order, one record each
Dump(obj) ==
    <<[name |-> "built", value |-> obj.built],
      [name |-> "fitted", value |-> obj.fitted],
      [name |-> "num_statistics", value |-> obj.num_statistics],
      [name |-> "num_mean", value |-> obj.num_mean],
      [name |-> "num_scale", value |-> obj.num_scale],
      [name |-> "cat_statistics", value |-> obj.cat_statistics],
      [name |-> "categories", value |-> obj.categories],
      [name |-> "cat_scale", value |-> obj.cat_scale],
      [name |-> "passthrough", value |-> obj.passthrough],
      [name |-> "sparse_output", value |-> obj.sparse_output]>>

\* pickle.load of a completely written file
Load(bytes) ==
    LET attr(n) == (CHOOSE i \in DOMAIN bytes : bytes[i].name = n)
    IN  [built |-> bytes[attr("built")].value,
         fitted |-> bytes[attr("fitted")].value,
         num_statistics |-> bytes[attr("num_statistics")].value,
         num_mean |-> bytes[attr("num_mean")].value,
         num_scale |-> bytes[attr("num_scale")].value,
         cat_statistics |-> bytes[attr("cat_statistics")].value,
         categories |-> bytes[attr("categories")].value,
         cat_scale |-> bytes[attr("cat_scale")].value,
         passthrough |-> bytes[attr("passthrough")].value,
         sparse_output |-> bytes[attr("sparse_output")].value]

\* The file at the artifact path
NoArtifact == [state |-> "absent", content |-> <<>>]

\* What a failed write may leave behind: open(file_path, "wb") empties the
\* file, and the dump may stop anywhere before its end
PartialWrites(bytes) == {SubSeq(bytes, 1, k) : k \in {0, Len(bytes) \div 2}}

\* save_object(file_path, obj): every outcome, as the file it leaves and the
\* exception it raises (none on success).  It fails before the file is
\* opened (the directory or the file cannot be created) or while writing.
save_object(file, obj) ==
    {[artifact |-> [state |-> "complete", content |-> Dump(obj)], error |-> NoException]}
    \cup {[artifact |-> file, error |-> CustomException(<<"OSError">>)]}
    \cup {[artifact |-> [state |-> "partial", content |-> w],
           error |-> CustomException(<<"PicklingError">>)] : w \in PartialWrites(Dump(obj))}

---------------------------------------------------------------------------
(* initiate_data_transformation, step by step *)

VARIABLES
    train_csv, test_csv,        \* what is stored at train_path and test_path
    artifact,                   \* the file at preprocessor_obj_file_path
    pc,                         \* the call's position
    train_df, test_df,
    preprocessor_obj,
    input_feature_train_df, target_feature_train_df,
    input_feature_test_df, target_feature_test_df,
    input_feature_train_arr, input_feature_test_arr,
    train_arr, test_arr,
    returned,                   \* what the caller receives
    raised,                     \* the exception the caller receives
    log,                        \* the steps this call has run, in order
    fit_inputs,                 \* the tables this call has passed to a fit
    cause,                      \* the error that made this call fail
    artifact_before             \* the artifact when this call began

locals ==
    <<train_df, test_df, preprocessor_obj, input_feature_train_df,
      target_feature_train_df, input_feature_test_df, target_feature_test_df,
      input_feature_train_arr, input_feature_test_arr, train_arr, test_arr>>

vars ==
    <<train_csv, test_csv, artifact, pc, locals, returned, raised, log,
      fit_inputs, cause, artifact_before>>

NoReturn == [present |-> FALSE, train_arr |-> <<>>, test_arr |-> <<>>, path |-> ""]

\* The test features transformed before the preprocessor is fitted
StepsTransformBeforeFit ==
    <<"read_train", "read_test", "build", "split_train", "split_test",
      "transform_test", "fit_transform", "concat_train", "concat_test",
      "save", "return">>

\* The preprocessor saved as soon as it is fitted
StepsSaveAfterFit ==
    <<"read_train", "read_test", "build", "split_train", "split_test",
      "fit_transform", "save", "transform_test", "concat_train",
      "concat_test", "return">>

\* The order of the statements of the try block
Steps ==
    <<"read_train", "read_test", "build", "split_train", "split_test",
      "fit_transform", "transform_test", "concat_train", "concat_test",
      "save", "return">>

StepAfter(step) ==
    LET i == CHOOSE j \in DOMAIN Steps : Steps[j] = step
    IN  IF i = Len(Steps) THEN "returned" ELSE Steps[i + 1]

\* An except clause that re-raises what it caught
HandlerReraise(e) == e

\* except Exception as e: raise CustomException(e, sys)
Handler(e) == CustomException(e)

\* train_df.drop(columns = [target_column_name], axis = 'columns')
Drop(df, c) ==
    [readable |-> df.readable, columns |-> df.columns \ {c},
     rows |-> [i \in 1..Len(df.rows) |-> [k \in df.columns \ {c} |-> df.rows[i][k]]]]

\* A fit on the test features
FitInputTest(train_features, test_features) == [source |-> "test", table |-> test_features]

\* The table line 96 passes to fit_transform, and which one it is
FitInput(train_features, test_features) == [source |-> "train", table |-> train_features]

\* Line 97 calling fit_transform: the preprocessor is fitted again
AfterTransformRefit(obj, df) == Fit(df)

\* The preprocessor after line 97's transform of the table df
AfterTransform(obj, df) == obj

\* The target stacked in front of the features
ConcatTargetFirst(arr, target) == [i \in 1..Len(arr) |-> <<<<target[i], 1>>>> \o arr[i]]

\* np.c_[arr, np.array(target)]: the target appended as the last column
Concat(arr, target) == [i \in 1..Len(arr) |-> Append(arr[i], <<target[i], 1>>)]

\* A freshly built preprocessor saved in place of the fitted one
SaveArgFresh(obj) == UnfittedPreprocessor

\* The object line 109 passes to save_object
SaveArg(obj) == obj

Init ==
    /\ train_csv \in Files
    /\ test_csv \in Files
    /\ artifact = NoArtifact
    /\ pc = "idle"
    /\ train_df = NoTable
    /\ test_df = NoTable
    /\ preprocessor_obj = NoPreprocessor
    /\ input_feature_train_df = NoTable
    /\ target_feature_train_df = <<>>
    /\ input_feature_test_df = NoTable
    /\ target_feature_test_df = <<>>
    /\ input_feature_train_arr = <<>>
    /\ input_feature_test_arr = <<>>
    /\ train_arr = <<>>
    /\ test_arr = <<>>
    /\ returned = NoReturn
    /\ raised = NoException
    /\ log = <<>>
    /\ fit_inputs = <<>>
    /\ cause = NoException
    /\ artifact_before = NoArtifact

\* A caller invokes initiate_data_transformation(train_path, test_path)
Call ==
    /\ pc \in {"idle", "returned", "raised"}
    /\ pc' = Steps[1]
    /\ train_df' = NoTable
    /\ test_df' = NoTable
    /\ preprocessor_obj' = NoPreprocessor
    /\ input_feature_train_df' = NoTable
    /\ target_feature_train_df' = <<>>
    /\ input_feature_test_df' = NoTable
    /\ target_feature_test_df' = <<>>
    /\ input_feature_train_arr' = <<>>
    /\ input_feature_test_arr' = <<>>
    /\ train_arr' = <<>>
    /\ test_arr' = <<>>
    /\ returned' = NoReturn
    /\ raised' = NoException
    /\ log' = <<>>
    /\ fit_inputs' = <<>>
    /\ cause' = NoException
    /\ artifact_before' = artifact
    /\ UNCHANGED <<train_csv, test_csv, artifact>>

\* The step `step` completes and control moves to the next statement
Advance(step) ==
    /\ pc' = StepAfter(step)
    /\ log' = Append(log, step)
    /\ UNCHANGED <<raised, cause>>

\* The step `step` raises e, which the except clause of line 120 wraps
Raise(step, e) ==
    /\ pc' = "raised"
    /\ log' = Append(log, step)
    /\ raised' = Handler(e)
    /\ cause' = <<e[Len(e)]>>


\* Line 76: train_df = pd.read_csv(train_path)
ReadTrain ==
    /\ pc = "read_train"
    /\ IF train_csv.readable
       THEN train_df' = train_csv /\ Advance("read_train")
       ELSE Raise("read_train", <<"FileNotFoundError">>) /\ UNCHANGED train_df
    /\ UNCHANGED <<train_csv, test_csv, artifact, test_df, preprocessor_obj,
                   input_feature_train_df, target_feature_train_df,
                   input_feature_test_df, target_feature_test_df,
                   input_feature_train_arr, input_feature_test_arr,
                   train_arr, test_arr, returned, fit_inputs, artifact_before>>

\* Line 77: test_df = pd.read_csv(test_path)
ReadTest ==
    /\ pc = "read_test"
    /\ IF test_csv.readable
       THEN test_df' = test_csv /\ Advance("read_test")
       ELSE Raise("read_test", <<"FileNotFoundError">>) /\ UNCHANGED test_df
    /\ UNCHANGED <<train_csv, test_csv, artifact, train_df, preprocessor_obj,
                   input_feature_train_df, target_feature_train_df,
                   input_feature_test_df, target_feature_test_df,
                   input_feature_train_arr, input_feature_test_arr,
                   train_arr, test_arr, returned, fit_inputs, artifact_before>>

\* Line 83 and lines 25-71: preprocessor_obj = self.get_data_transformer_object().
\* The constructors only store their arguments; what can fail is the
\* interpreter (an allocation), which get_data_transformer_object's own
\* except clause wraps before line 120 wraps it again.
GetDataTransformerObject ==
    /\ pc = "build"
    /\ \E constructed \in BOOLEAN :
          IF constructed
          THEN preprocessor_obj' = UnfittedPreprocessor /\ Advance("build")
          ELSE Raise("build", Handler(<<"MemoryError">>)) /\ UNCHANGED preprocessor_obj
    /\ UNCHANGED <<train_csv, test_csv, artifact, train_df, test_df,
                   input_feature_train_df, target_feature_train_df,
                   input_feature_test_df, target_feature_test_df,
                   input_feature_train_arr, input_feature_test_arr,
                   train_arr, test_arr, returned, fit_inputs, artifact_before>>

\* Lines 88-89: the training table split into features and target
SplitTrain ==
    /\ pc = "split_train"
    /\ IF target_column_name \in train_df.columns
       THEN /\ input_feature_train_df' = Drop(train_df, target_column_name)
            /\ target_feature_train_df' = Values(train_df, target_column_name)
            /\ Advance("split_train")
       ELSE /\ Raise("split_train", <<"KeyError">>)
            /\ UNCHANGED <<input_feature_train_df, target_feature_train_df>>
    /\ UNCHANGED <<train_csv, test_csv, artifact, train_df, test_df, preprocessor_obj,
                   input_feature_test_df, target_feature_test_df,
                   input_feature_train_arr, input_feature_test_arr,
                   train_arr, test_arr, returned, fit_inputs, artifact_before>>

\* Lines 91-92: the test table split into features and target
SplitTest ==
    /\ pc = "split_test"
    /\ IF target_column_name \in test_df.columns
       THEN /\ input_feature_test_df' = Drop(test_df, target_column_name)
            /\ target_feature_test_df' = Values(test_df, target_column_name)
            /\ Advance("split_test")
       ELSE /\ Raise("split_test", <<"KeyError">>)
            /\ UNCHANGED <<input_feature_test_df, target_feature_test_df>>
    /\ UNCHANGED <<train_csv, test_csv, artifact, train_df, test_df, preprocessor_obj,
                   input_feature_train_df, target_feature_train_df,
                   input_feature_train_arr, input_feature_test_arr,
                   train_arr, test_arr, returned, fit_inputs, artifact_before>>

\* Line 96: input_feature_train_arr = preprocessor_obj.fit_transform(...)
FitTransformTrain ==
    /\ pc = "fit_transform"
    /\ LET x == FitInput(input_feature_train_df, input_feature_test_df)
       IN  IF CanFit(x.table) /\ CanTransform(Fit(x.table), input_feature_train_df)
           THEN /\ preprocessor_obj' = Fit(x.table)
                /\ input_feature_train_arr' = Transform(Fit(x.table), input_feature_train_df)
                /\ fit_inputs' = Append(fit_inputs, x.source)
                /\ Advance("fit_transform")
           ELSE /\ Raise("fit_transform", <<"ValueError">>)
                /\ UNCHANGED <<preprocessor_obj, input_feature_train_arr, fit_inputs>>
    /\ UNCHANGED <<train_csv, test_csv, artifact, train_df, test_df,
                   input_feature_train_df, target_feature_train_df,
                   input_feature_test_df, target_feature_test_df,
                   input_feature_test_arr, train_arr, test_arr, returned,
                   artifact_before>>

\* Line 97: input_feature_test_arr = preprocessor_obj.transform(...)
TransformTest ==
    /\ pc = "transform_test"
    /\ IF CanTransform(preprocessor_obj, input_feature_test_df)
       THEN /\ input_feature_test_arr' = Transform(preprocessor_obj, input_feature_test_df)
            /\ preprocessor_obj' = AfterTransform(preprocessor_obj, input_feature_test_df)
            /\ Advance("transform_test")
       ELSE /\ Raise("transform_test",
                     IF preprocessor_obj.fitted THEN <<"ValueError">> ELSE <<"NotFittedError">>)
            /\ UNCHANGED <<preprocessor_obj, input_feature_test_arr>>
    /\ UNCHANGED <<train_csv, test_csv, artifact, train_df, test_df,
                   input_feature_train_df, target_feature_train_df,
                   input_feature_test_df, target_feature_test_df,
                   input_feature_train_arr, train_arr, test_arr, returned,
                   fit_inputs, artifact_before>>

\* Lines 99-101: train_arr = np.c_[...].  A sparse feature matrix is not an
\* array np.c_ can stack with the target; the matrix is sparse from 22
\* distinct training categories on, which takes more rows than MaxRows.
ConcatTrain ==
    /\ pc = "concat_train"
    /\ IF ~preprocessor_obj.sparse_output
       THEN /\ train_arr' = Concat(input_feature_train_arr, target_feature_train_df)
            /\ Advance("concat_train")
       ELSE Raise("concat_train", <<"ValueError">>) /\ UNCHANGED train_arr
    /\ UNCHANGED <<train_csv, test_csv, artifact, train_df, test_df, preprocessor_obj,
                   input_feature_train_df, target_feature_train_df,
                   input_feature_test_df, target_feature_test_df,
                   input_feature_train_arr, input_feature_test_arr,
                   test_arr, returned, fit_inputs, artifact_before>>

\* Lines 103-105: test_arr = np.c_[...]
ConcatTest ==
    /\ pc = "concat_test"
    /\ IF ~preprocessor_obj.sparse_output
       THEN /\ test_arr' = Concat(input_feature_test_arr, target_feature_test_df)
            /\ Advance("concat_test")
       ELSE Raise("concat_test", <<"ValueError">>) /\ UNCHANGED test_arr
    /\ UNCHANGED <<train_csv, test_csv, artifact, train_df, test_df, preprocessor_obj,
                   input_feature_train_df, target_feature_train_df,
                   input_feature_test_df, target_feature_test_df,
                   input_feature_train_arr, input_feature_test_arr,
                   train_arr, returned, fit_inputs, artifact_before>>

\* Lines 107-110: save_object(file_path = ..., obj = preprocessor_obj)
SaveObject ==
    /\ pc = "save"
    /\ \E outcome \in save_object(artifact, SaveArg(preprocessor_obj)) :
          /\ artifact' = outcome.artifact
          /\ IF outcome.error = NoException
             THEN Advance("save")
             ELSE Raise("save", outcome.error)
    /\ UNCHANGED <<train_csv, test_csv, locals, returned, fit_inputs, artifact_before>>

\* Lines 114-118: return (train_arr, test_arr, path)
Return ==
    /\ pc = "return"
    /\ returned' = [present |-> TRUE, train_arr |-> train_arr, test_arr |-> test_arr,
                    path |-> preprocessor_obj_file_path]
    /\ Advance("return")
    /\ UNCHANGED <<train_csv, test_csv, artifact, locals, fit_inputs, artifact_before>>

Next ==
    \/ Call
    \/ ReadTrain
    \/ ReadTest
    \/ GetDataTransformerObject
    \/ SplitTrain
    \/ SplitTest
    \/ FitTransformTrain
    \/ TransformTest
    \/ ConcatTrain
    \/ ConcatTest
    \/ SaveObject
    \/ Return

Spec == Init /\ [][Next]_vars


---------------------------------------------------------------------------
(* Properties *)

\* The step has run in this call and did not raise
Done(step) ==
    \E i \in DOMAIN log : log[i] = step /\ ~(pc = "raised" /\ i = Len(log))

\* The step that raised
FailedStep == log[Len(log)]

Features(row) == SubSeq(row, 1, Len(row) - 1)

Last(row) == row[Len(row)]

\* The non-missing values of a column of a table
ObservedIn(df, c) == {df.rows[i][c] : i \in 1..Len(df.rows)} \ {NaN}

\* C1: the preprocessor is fitted on the training features only.  No fit of
\* the call takes the test features, and once fitted the parameters are
\* those the training table alone determines, whatever the test table is.
C1_FitOnTrainOnly ==
    /\ \A i \in DOMAIN fit_inputs : fit_inputs[i] = "train"
    /\ preprocessor_obj.fitted =>
          preprocessor_obj = Fit(Drop(train_csv, target_column_name))

\* A call that returned although fitting on its test table would have given
\* other parameters
C1_Witness ==
    /\ pc = "returned"
    /\ fit_inputs = <<"train">>
    /\ Fit(input_feature_test_df) # preprocessor_obj

\* C2: the lifecycle unfitted -> fitted -> used -> persisted.  The object
\* built for the call is unfitted until the call's one fit; nothing is
\* transformed before the fit; the test features are transformed after it;
\* the object is saved only after both matrices exist, and what is saved is
\* fitted.
C2_Lifecycle ==
    LET lifecycle == <<"build", "fit_transform", "transform_test", "save">>
        ran == SelectSeq(log, LAMBDA x : x \in Range(lifecycle))
    IN  /\ Len(ran) <= Len(lifecycle)
        /\ \A i \in DOMAIN ran : ran[i] = lifecycle[i]
        /\ Len(fit_inputs) <= 1
        /\ preprocessor_obj.fitted <=> Done("fit_transform")
        /\ preprocessor_obj.fitted <=> Len(fit_inputs) = 1
        /\ (Done("build") /\ ~Done("fit_transform")) => preprocessor_obj = UnfittedPreprocessor
        /\ ~Done("build") => preprocessor_obj = NoPreprocessor
        /\ input_feature_train_arr # <<>> => preprocessor_obj.fitted
        /\ input_feature_test_arr # <<>> => Done("fit_transform")
        /\ "save" \in Range(log) =>
              /\ Done("transform_test")
              /\ input_feature_train_arr # <<>>
              /\ input_feature_test_arr # <<>>
        /\ Done("save") =>
              /\ artifact.state = "complete"
              /\ Load(artifact.content).fitted

\* A second call that ran to its end, after an earlier call left an artifact
C2_Witness ==
    /\ pc = "returned"
    /\ artifact_before.state = "complete"
    /\ Len(fit_inputs) = 1

\* C3 as stated: a call completes every step, writes the artifact and
\* returns the matrices and the path, or it raises, returns nothing and
\* leaves the artifact as it was when the call began.
C3_AllOrNothing ==
    /\ pc = "returned" =>
          /\ returned.present
          /\ artifact.state = "complete"
          /\ Len(log) = 11
          /\ \A st \in {"fit_transform", "transform_test", "concat_train", "concat_test", "save"} :
                Done(st)
    /\ pc # "returned" => ~returned.present
    /\ pc = "raised" => artifact = artifact_before

\* C3 as amended: as above, but only a call that raises before the persist
\* step leaves the artifact as it was; a call that raises in the persist
\* step leaves it as it was or leaves a partially written file, never a
\* complete one of its own.
C3_AllOrNothingButPartialFile ==
    /\ pc = "returned" =>
          /\ returned.present
          /\ artifact.state = "complete"
          /\ Len(log) = 11
          /\ \A st \in {"fit_transform", "transform_test", "concat_train", "concat_test", "save"} :
                Done(st)
    /\ pc # "returned" => ~returned.present
    /\ (pc = "raised" /\ FailedStep # "save") => artifact = artifact_before
    /\ (pc = "raised" /\ FailedStep = "save") =>
          artifact = artifact_before \/ artifact.state = "partial"

\* A call that raised in the persist step and left a partial file where an
\* earlier call's complete artifact was
C3_Witness ==
    /\ pc = "raised"
    /\ FailedStep = "save"
    /\ artifact_before.state = "complete"
    /\ artifact.state = "partial"

\* C4: a failing call hands its caller a CustomException whose chain ends
\* in the error that occurred; the chain holds no other kind above it; no
\* step ran twice; and nothing that a later step produces exists.
C4_WrappedOnce ==
    /\ pc # "raised" => raised = NoException
    /\ pc = "raised" =>
          /\ Len(raised) >= 2
          /\ raised[1] = "CustomException"
          /\ \A i \in 1..(Len(raised) - 1) : raised[i] = "CustomException"
          /\ <<raised[Len(raised)]>> = cause
          /\ cause # <<"CustomException">>
          /\ ~returned.present
    /\ Cardinality(Range(log)) = Len(log)
    /\ "read_test" \notin Range(log) => test_df = NoTable
    /\ "build" \notin Range(log) => preprocessor_obj = NoPreprocessor
    /\ "split_train" \notin Range(log) => input_feature_train_df = NoTable
    /\ "split_test" \notin Range(log) => input_feature_test_df = NoTable
    /\ "fit_transform" \notin Range(log) => input_feature_train_arr = <<>>
    /\ "transform_test" \notin Range(log) => input_feature_test_arr = <<>>
    /\ "concat_train" \notin Range(log) => train_arr = <<>>
    /\ "concat_test" \notin Range(log) => test_arr = <<>>
    /\ "save" \notin Range(log) => artifact = artifact_before

\* A call that failed on a table without the target column, after the
\* preprocessor was built
C4_Witness ==
    /\ pc = "raised"
    /\ cause = <<"KeyError">>
    /\ raised = <<"CustomException", "KeyError">>
    /\ FailedStep = "split_test"

\* The distinct categories observed in the training table, over the five
\* categorical columns
TrainCategoryCount ==
    SeqSum([j \in 1..Len(categorical_columns) |->
               Cardinality(ObservedIn(train_csv, categorical_columns[j]))])

\* The numeric columns with at least one non-missing training value
TrainNumericKept ==
    {c \in Range(numerical_columns) : ObservedIn(train_csv, c) # {}}

Matrices == {returned.train_arr, returned.test_arr}

\* C5 as stated: every row of both returned matrices has 2 + (distinct
\* training categories) + 1 columns.
C5_ColumnCount ==
    pc = "returned" =>
        \A m \in Matrices : \A i \in DOMAIN m :
            Len(m[i]) = Len(numerical_columns) + TrainCategoryCount + 1

\* C5 as amended: every row of both returned matrices has (numeric columns
\* with a non-missing training value) + (distinct training categories) + 1
\* columns, whatever the test table holds and whatever other columns the
\* tables carry.
C5_ColumnCountOfKept ==
    pc = "returned" =>
        \A m \in Matrices : \A i \in DOMAIN m :
            Len(m[i]) = Cardinality(TrainNumericKept) + TrainCategoryCount + 1

\* A call that returned two test rows for a training table with an extra
\* column and a numeric column missing in every row
C5_Witness ==
    /\ pc = "returned"
    /\ ExtraColumn \in train_csv.columns
    /\ TrainNumericKept # Range(numerical_columns)
    /\ Len(returned.test_arr) = 2

\* C6: each returned matrix has one row per input row, in the input's
\* order; its last column is the row's raw math_score and the columns
\* before it are the row's transformed features; the target is no column of
\* what the preprocessor is given.
C6_RowsAndTarget ==
    /\ pc = "returned" =>
          /\ Len(returned.train_arr) = Len(train_csv.rows)
          /\ Len(returned.test_arr) = Len(test_csv.rows)
          /\ \A i \in DOMAIN returned.train_arr :
                /\ Last(returned.train_arr[i]) = <<train_csv.rows[i][target_column_name], 1>>
                /\ Features(returned.train_arr[i]) = TransformRow(preprocessor_obj, train_csv.rows[i])
          /\ \A i \in DOMAIN returned.test_arr :
                /\ Last(returned.test_arr[i]) = <<test_csv.rows[i][target_column_name], 1>>
                /\ Features(returned.test_arr[i]) = TransformRow(preprocessor_obj, test_csv.rows[i])
    /\ target_column_name \notin input_feature_train_df.columns
    /\ target_column_name \notin input_feature_test_df.columns
    /\ target_column_name \notin preprocessor_obj.passthrough

\* A call that returned two matrices of two different rows each, the test
\* rows in another order than the training rows
C6_Witness ==
    /\ pc = "returned"
    /\ Len(returned.train_arr) = 2
    /\ Len(returned.test_arr) = 2
    /\ returned.train_arr[1] # returned.train_arr[2]
    /\ returned.test_arr[1] = returned.train_arr[2]
    /\ returned.test_arr[2] = returned.train_arr[1]

\* The row with each missing feature filled from the training table where
\* that table has a value for the column: the numeric median, the most
\* frequent category
FilledRow(r) ==
    [c \in DOMAIN r |->
        IF r[c] # NaN \/ c \notin SchemaColumns \/ ObservedIn(train_csv, c) = {} THEN r[c]
        ELSE IF c \in Range(numerical_columns)
             THEN Median2(Values(train_csv, c)) \div 2
             ELSE MostFrequent(Values(train_csv, c))]

HasMissing(r) == \E c \in SchemaColumns : r[c] = NaN

\* C7 as stated: every missing feature of a train or test row has a training
\* median or most frequent value to be filled with, and the row's output is
\* the output of the row so filled.
C7_Imputed ==
    pc = "returned" =>
        /\ \A i \in DOMAIN train_csv.rows : HasMissing(train_csv.rows[i]) =>
              /\ ~HasMissing(FilledRow(train_csv.rows[i]))
              /\ Features(returned.train_arr[i])
                    = TransformRow(preprocessor_obj, FilledRow(train_csv.rows[i]))
        /\ \A i \in DOMAIN test_csv.rows : HasMissing(test_csv.rows[i]) =>
              /\ ~HasMissing(FilledRow(test_csv.rows[i]))
              /\ Features(returned.test_arr[i])
                    = TransformRow(preprocessor_obj, FilledRow(test_csv.rows[i]))

\* C7 as amended: a missing feature in a column that has a non-missing
\* training value is filled with the training median or most frequent
\* value, so the row's output is the output of the row so filled; a column
\* with no non-missing training value is left out of both matrices.
C7_ImputedWhereObserved ==
    pc = "returned" =>
        /\ \A i \in DOMAIN train_csv.rows :
              Features(returned.train_arr[i])
                 = TransformRow(preprocessor_obj, FilledRow(train_csv.rows[i]))
        /\ \A i \in DOMAIN test_csv.rows :
              Features(returned.test_arr[i])
                 = TransformRow(preprocessor_obj, FilledRow(test_csv.rows[i]))
        /\ \A m \in Matrices : \A i \in DOMAIN m :
              Len(Features(m[i]))
                 = Cardinality(TrainNumericKept) + TrainCategoryCount

\* A call that returned for a test row with a missing score and a missing
\* category, both filled from training values that differ from row to row
C7_Witness ==
    /\ pc = "returned"
    /\ \E i \in DOMAIN test_csv.rows :
          /\ test_csv.rows[i]["writing_score"] = NaN
          /\ test_csv.rows[i]["parental_level_of_education"] = NaN
    /\ Cardinality(ObservedIn(train_csv, "writing_score")) = 2
    /\ Cardinality(ObservedIn(train_csv, "parental_level_of_education")) = 2

Inputs ==
    {input_feature_train_df, input_feature_test_df}
    \cup {Drop(MkTable(SchemaColumns \cup {target_column_name}, <<r>>), target_column_name) :
             r \in RowPool}

UnseenInTest(columns) ==
    \E c \in columns \cap test_csv.columns : \E i \in DOMAIN test_csv.rows :
        /\ test_csv.rows[i][c] # NaN
        /\ test_csv.rows[i][c] \notin ObservedIn(train_csv, c)

\* The test transform raises CustomException, nothing is returned and the
\* artifact is as it was when the call began
FailsInTestTransform ==
    \/ pc = "transform_test"
    \/ /\ pc = "raised"
       /\ FailedStep = "transform_test"
       /\ raised = <<"CustomException", "ValueError">>
       /\ ~returned.present
       /\ artifact = artifact_before

\* C10 as stated: once the fit has succeeded, a test value unseen in
\* training in any categorical column makes the test transform fail.
C10_UnseenCategory ==
    (Done("fit_transform") /\ UnseenInTest(Range(categorical_columns)))
        => FailsInTestTransform

\* C10 as amended: the same for a categorical column that has at least one
\* non-missing training value; a column with none is left out by the fitted
\* preprocessor and its test values are not looked at.
C10_UnseenCategoryInKeptColumn ==
    (Done("fit_transform")
        /\ UnseenInTest({c \in Range(categorical_columns) : ObservedIn(train_csv, c) # {}}))
        => FailsInTestTransform

\* A call whose fit succeeded and whose test transform raised on an unseen
\* category
C10_Witness ==
    /\ pc = "raised"
    /\ FailedStep = "transform_test"
    /\ preprocessor_obj.fitted
    /\ SchemaColumns \subseteq test_csv.columns
    /\ UnseenInTest({c \in Range(categorical_columns) : ObservedIn(train_csv, c) # {}})

====
